---- MODULE Spec2Model ----
(***************************************************************************)
(* A model of the persistent treap of src/lib.rs: the node arena (every    *)
(* Rc<VertreapNode> is an entry of `heap`), the shared lineage counter     *)
(* (VertreapState.version), the handles (Vertreap) and the operations      *)
(* append_with_priority, append (through a KeyedGenerator), clone, find,   *)
(* len and iter.                                                           *)
(***************************************************************************)
EXTENDS Integers, Sequences, FiniteSets, TLC

\* ------------------------------------------------------------------ bounds
\* The largest value of the lineage counter: u64::MAX scaled down, so that
\* the overflow of `old_version + 1` is reached.
MaxVersion == 3

\* The keys and priorities the calls are made with.
Keys == {1, 2, 3}
Priorities == {1, 2}

\* ------------------------------------------------------------------- state
VARIABLES
  state_version,  \* VertreapState.version: the Cell<u64> all handles share
  heap,           \* the live Rc<VertreapNode> allocations: id -> node
  handles,        \* the handles of the lineage, as values
  ref,            \* per handle, the map a reference implementation holds
  op              \* what the last call was and how it ended

vars == <<state_version, heap, handles, ref, op>>

\* Option::None of a child or root reference; node ids are 1, 2, ...
None == 0

\* An item whose partial_cmp answers None against everything (an f64 NaN in
\* a raw Vertreap<f64>); never a key of the Map and Set facades (K: Ord).
Incomparable == -1

\* KV<K, V>: ordered by the key alone.
KV(key, val) == [k |-> key, v |-> val]

\* Item::partial_cmp: Some(Ordering) as its name, None as "None".
partial_cmp(a, b) ==
  IF a.k = Incomparable \/ b.k = Incomparable THEN "None"
  ELSE IF a.k < b.k THEN "Less"
  ELSE IF a.k > b.k THEN "Greater"
  ELSE "Equal"

\* ------------------------------------------------------------- allocation
\* Rc::new: the node gets an address no live node has.
FreshId(m) ==
  CHOOSE i \in 1..(Cardinality(DOMAIN m) + 1) :
    /\ i \notin DOMAIN m
    /\ \A j \in 1..(i - 1) : j \in DOMAIN m

RcNew(m, node) ==
  LET id == FreshId(m) IN [m |-> (id :> node) @@ m, id |-> id]

\* The last Rc of a node goes out of scope: its allocation is freed (its
\* children are owned elsewhere too and stay).
RcDrop(m, id) == [i \in (DOMAIN m) \ {id} |-> m[i]]

\* ------------------------------------------------------------------ nodes
leaf(version, priority, item) ==
  [version |-> version, priority |-> priority, item |-> item,
   left |-> None, right |-> None]

\* The assertions of VertreapNode::branch.
branch_ok(m, version, left, right) ==
  /\ left # None => m[left].version <= version
  /\ right # None => m[right].version <= version

branch(version, priority, item, left, right) ==
  [version |-> version, priority |-> priority, item |-> item,
   left |-> left, right |-> right]

\* The result of a node-building call: the arena after it, the node built
\* (a value, not yet behind an Rc), the element-count delta, whether the call
\* panicked, and how many rotations it made.
Ok(m, node, ct, rots) ==
  [m |-> m, node |-> node, ct |-> ct, trap |-> FALSE, rots |-> rots]

Panic(m) ==
  [m |-> m, node |-> leaf(0, 0, KV(0, 0)), ct |-> 0, trap |-> TRUE, rots |-> 0]

\* ------------------------------------------------------------------- find
\* Option<Rc<Item>>, and "panic" for a call that did not return.
Some(item) == [tag |-> "Some", item |-> item]
NoItem == [tag |-> "None", item |-> KV(0, 0)]
FindPanic == [tag |-> "panic", item |-> KV(0, 0)]

\* Mutant of _find: the search descends to the wrong side.
RECURSIVE _find_swapped(_, _, _, _)
_find_swapped(m, self, version, key) ==
  LET s == m[self]
      c == partial_cmp(s.item, KV(key, 0))
  IN  IF ~(s.version <= version) THEN FindPanic
      ELSE IF c = "None" THEN FindPanic
      ELSE IF c = "Equal" THEN Some(s.item)
      ELSE IF c = "Less"
        THEN IF s.left = None THEN NoItem
             ELSE _find_swapped(m, s.left, version, key)
        ELSE IF s.right = None THEN NoItem
             ELSE _find_swapped(m, s.right, version, key)

RECURSIVE _find(_, _, _, _)
_find(m, self, version, key) ==
  LET s == m[self]
      c == partial_cmp(s.item, KV(key, 0))
  IN  IF ~(s.version <= version) THEN FindPanic
      ELSE IF c = "None" THEN FindPanic
      ELSE IF c = "Equal" THEN Some(s.item)
      ELSE IF c = "Greater"
        THEN IF s.left = None THEN NoItem ELSE _find(m, s.left, version, key)
        ELSE IF s.right = None THEN NoItem ELSE _find(m, s.right, version, key)

find(m, h, key) ==
  IF h.root = None THEN NoItem ELSE _find(m, h.root, h.version, key)

len(h) == h.count

\* ------------------------------------------------------------------- iter
RECURSIVE IterRun(_, _, _, _)
\* VertreapIter::next called until it answers None: `next` and `stack` are
\* the iterator's fields, `out` the nodes yielded so far.
IterRun(m, next, stack, out) ==
  IF next # None
    THEN IterRun(m, m[next].left, Append(stack, next), out)
    ELSE IF Len(stack) > 0
      THEN LET top == stack[Len(stack)] IN
           IterRun(m, m[top].right, SubSeq(stack, 1, Len(stack) - 1),
                   Append(out, top))
      ELSE out

\* The node ids iter(h) yields, in order.
iter(m, h) == IterRun(m, h.root, <<>>, <<>>)

\* What VertreapMapIter yields: the items.
IterItems(m, h) == [i \in 1..Len(iter(m, h)) |-> m[iter(m, h)[i]].item]
IterKeys(m, h) == [i \in 1..Len(iter(m, h)) |-> m[iter(m, h)[i]].item.k]

\* -------------------------------------------------------------- rotations
\* The version assertions at the head of _rotate_left and _rotate_right:
\* on self, its children and the grandchildren under `up`, the child that
\* is promoted.
rotate_ok(m, self, up, other, new_version) ==
  /\ self.version <= new_version
  /\ other # None => m[other].version <= new_version
  /\ up # None
  /\ m[up].version <= new_version
  /\ m[up].left # None => m[m[up].left].version <= new_version
  /\ m[up].right # None => m[m[up].right].version <= new_version

\* Mutant of _rotate_left: the demoted node is given the far grandchild,
\* old_right.right, instead of old_right.left.
_rotate_left_far(m, self, new_version) ==
  IF ~rotate_ok(m, self, self.right, self.left, new_version) THEN Panic(m)
  ELSE
    LET old_right == m[self.right]
        new_left == branch(new_version, self.priority, self.item,
                           self.left, old_right.right)
        a == RcNew(m, new_left)
        new_up == branch(new_version, old_right.priority, old_right.item,
                         a.id, old_right.right)
    IN  Ok(a.m, new_up, 0, 1)

_rotate_left(m, self, new_version) ==
  IF ~rotate_ok(m, self, self.right, self.left, new_version) THEN Panic(m)
  ELSE
    LET old_right == m[self.right]
        new_left == branch(new_version, self.priority, self.item,
                           self.left, old_right.left)
        a == RcNew(m, new_left)
        new_up == branch(new_version, old_right.priority, old_right.item,
                         a.id, old_right.right)
    IN  IF /\ branch_ok(m, new_version, self.left, old_right.left)
           /\ branch_ok(a.m, new_version, a.id, old_right.right)
        THEN Ok(a.m, new_up, 0, 1)
        ELSE Panic(m)

_rotate_right(m, self, new_version) ==
  IF ~rotate_ok(m, self, self.left, self.right, new_version) THEN Panic(m)
  ELSE
    LET old_left == m[self.left]
        new_right == branch(new_version, self.priority, self.item,
                            old_left.right, self.right)
        a == RcNew(m, new_right)
        new_up == branch(new_version, old_left.priority, old_left.item,
                         old_left.left, a.id)
    IN  IF /\ branch_ok(m, new_version, old_left.right, self.right)
           /\ branch_ok(a.m, new_version, old_left.left, a.id)
        THEN Ok(a.m, new_up, 0, 1)
        ELSE Panic(m)

\* ----------------------------------------------------------------- append
\* Mutant of heap_ordered: the comparison is turned round.
heap_ordered_reversed(child_priority, self_priority) ==
  child_priority >= self_priority

\* `new_left.priority <= self.priority` and its mirror image.
heap_ordered(child_priority, self_priority) == child_priority <= self_priority

\* Mutant of append_equal: the item of the existing node is overwritten in
\* place.
append_equal_in_place(m, self, new_version, new_priority, new_item) ==
  LET w == [m EXCEPT ![self].item = new_item] IN
  Ok(w, branch(new_version, w[self].priority, new_item, w[self].left,
               w[self].right), 0, 0)

\* Mutant of append_equal: the update is counted as a new element.
append_equal_counted(m, self, new_version, new_priority, new_item) ==
  LET s == m[self] IN
  Ok(m, branch(new_version, s.priority, new_item, s.left, s.right), 1, 0)

\* Mutant of append_equal: the replacement node takes the priority supplied.
append_equal_rerolled(m, self, new_version, new_priority, new_item) ==
  LET s == m[self] IN
  Ok(m, branch(new_version, new_priority, new_item, s.left, s.right), 0, 0)

\* Mutant of append_equal: the left subtree's root is copied instead of
\* shared.
append_equal_copied(m, self, new_version, new_priority, new_item) ==
  LET s == m[self]
      c == IF s.left = None THEN [m |-> m, id |-> None]
           ELSE RcNew(m, m[s.left])
  IN  Ok(c.m, branch(new_version, s.priority, new_item, c.id, s.right), 0, 0)

\* The Ordering::Equal arm: a replacement node with the node's own priority
\* and children and the new item.
append_equal(m, self, new_version, new_priority, new_item) ==
  LET s == m[self] IN
  IF branch_ok(m, new_version, s.left, s.right)
    THEN Ok(m, branch(new_version, s.priority, new_item, s.left, s.right), 0, 0)
    ELSE Panic(m)

RECURSIVE _append(_, _, _, _, _)
_append(m, self, new_version, new_priority, new_item) ==
  LET s == m[self]
      c == partial_cmp(new_item, s.item)
      new_leaf == Ok(m, leaf(new_version, new_priority, new_item), 1, 0)
  IN
  IF ~(s.version < new_version) THEN Panic(m)
  ELSE IF c = "None" THEN Panic(m)
  ELSE IF c = "Equal"
    THEN append_equal(m, self, new_version, new_priority, new_item)
  ELSE IF c = "Less" THEN
    LET r == IF s.left = None THEN new_leaf
             ELSE _append(m, s.left, new_version, new_priority, new_item)
    IN
    IF r.trap THEN r
    ELSE
      LET a == RcNew(r.m, r.node)
          tmp_node == branch(new_version, s.priority, s.item, a.id, s.right)
          rot == _rotate_right(a.m, tmp_node, new_version)
      IN  IF ~branch_ok(a.m, new_version, a.id, s.right) THEN Panic(m)
          ELSE IF heap_ordered(r.node.priority, s.priority)
            THEN Ok(a.m, tmp_node, r.ct, r.rots)
          ELSE IF rot.trap THEN rot
          \* tmp_node is dropped, and with it the only Rc of new_left
          ELSE Ok(RcDrop(rot.m, a.id), rot.node, r.ct, r.rots + 1)
  ELSE
    LET r == IF s.right = None THEN new_leaf
             ELSE _append(m, s.right, new_version, new_priority, new_item)
    IN
    IF r.trap THEN r
    ELSE
      LET a == RcNew(r.m, r.node)
          tmp_node == branch(new_version, s.priority, s.item, s.left, a.id)
          rot == _rotate_left(a.m, tmp_node, new_version)
      IN  IF ~branch_ok(a.m, new_version, s.left, a.id) THEN Panic(m)
          ELSE IF heap_ordered(r.node.priority, s.priority)
            THEN Ok(a.m, tmp_node, r.ct, r.rots)
          ELSE IF rot.trap THEN rot
          ELSE Ok(RcDrop(rot.m, a.id), rot.node, r.ct, r.rots + 1)

\* The empty handle of Vertreap::default.
EmptyHandle == [version |-> 0, count |-> 0, root |-> None]

\* A call that panicked: nothing is returned, whatever it had allocated is
\* freed as the stack unwinds, and the counter holds `sv`.
Abort(m, sv) ==
  [trap |-> TRUE, sv |-> sv, m |-> m, handle |-> EmptyHandle, rots |-> 0]

\* Mutant of append_with_priority: the counter is set before the overflow
\* is looked for, so a call that overflows leaves the wrapped value in it.
append_with_priority_set_first(m, sv, h, priority, item) ==
  LET old_version == sv
      new_version == (old_version + 1) % (MaxVersion + 1)
      r == IF h.root = None THEN Ok(m, leaf(new_version, priority, item), 1, 0)
           ELSE _append(m, h.root, new_version, priority, item)
      a == RcNew(r.m, r.node)
  IN
  IF new_version = 0 THEN Abort(m, new_version)
  ELSE IF ~(h.version < new_version) THEN Abort(m, new_version)
  ELSE IF r.trap THEN Abort(m, new_version)
  ELSE [trap |-> FALSE, sv |-> new_version, m |-> a.m,
        handle |-> [version |-> new_version, count |-> h.count + r.ct,
                    root |-> a.id],
        rots |-> r.rots]

\* Mutant of append_with_priority: the new version is never stored in the
\* shared counter.
append_with_priority_unset(m, sv, h, priority, item) ==
  LET old_version == sv
      new_version == (old_version + 1) % (MaxVersion + 1)
      r == IF h.root = None THEN Ok(m, leaf(new_version, priority, item), 1, 0)
           ELSE _append(m, h.root, new_version, priority, item)
      a == RcNew(r.m, r.node)
  IN
  IF new_version = 0 THEN Abort(m, old_version)
  ELSE IF ~(h.version < new_version) THEN Abort(m, old_version)
  ELSE IF r.trap THEN Abort(m, old_version)
  ELSE [trap |-> FALSE, sv |-> old_version, m |-> a.m,
        handle |-> [version |-> new_version, count |-> h.count + r.ct,
                    root |-> a.id],
        rots |-> r.rots]

\* `old_version + 1` in u64: a build with overflow checks panics on the
\* addition, one without wraps to 0 and fails assert!(new_version != 0).
\* Both panic before the counter is set.
append_with_priority(m, sv, h, priority, item) ==
  LET old_version == sv
      new_version == (old_version + 1) % (MaxVersion + 1)
      r == IF h.root = None THEN Ok(m, leaf(new_version, priority, item), 1, 0)
           ELSE _append(m, h.root, new_version, priority, item)
      a == RcNew(r.m, r.node)
  IN
  IF new_version = 0 THEN Abort(m, old_version)
  ELSE IF ~(h.version < new_version) THEN Abort(m, new_version)
  ELSE IF r.trap THEN Abort(m, new_version)
  ELSE [trap |-> FALSE, sv |-> new_version, m |-> a.m,
        handle |-> [version |-> new_version, count |-> h.count + r.ct,
                    root |-> a.id],
        rots |-> r.rots]

\* ------------------------------------------------------------ the program
\* The record of a call: its kind, the handle it was made on, the priority,
\* key and payload it was given, the handle it returned, whether it panicked, and how many make_priority calls
\* and rotations it made.
NoOp ==
  [kind |-> "new", src |-> EmptyHandle, p |-> 0, k |-> 0, v |-> 0,
   new |-> EmptyHandle, trap |-> FALSE, calls |-> 0, rots |-> 0]

\* The reference map of the empty handle holds no key; an append puts the
\* payload under the key.
EmptyRef == << >>
RefPut(r, k, v) == (k :> v) @@ r

\* VertreapMap::new_with_rng and the like: one empty handle, counter 0.
Init ==
  /\ state_version = 0
  /\ heap = << >>
  /\ handles = {EmptyHandle}
  /\ ref = (EmptyHandle :> EmptyRef)
  /\ op = NoOp

\* The effect of a call of Vertreap::append_with_priority on handle h, made
\* by a facade call of the given kind after `calls` calls of make_priority.
DoAppend(kind, calls, h, p, k, v) ==
  LET res == append_with_priority(heap, state_version, h, p, KV(k, v))
  IN  /\ state_version' = res.sv
      /\ heap' = res.m
      /\ handles' = IF res.trap THEN handles ELSE handles \cup {res.handle}
      /\ ref' = IF res.trap THEN ref
                ELSE (res.handle :> RefPut(ref[h], k, v)) @@ ref
      /\ op' = IF res.trap
                THEN [NoOp EXCEPT !.kind = kind, !.trap = TRUE, !.calls = calls]
                ELSE [kind |-> kind, src |-> h, p |-> p, k |-> k, v |-> v,
                      new |-> res.handle, trap |-> FALSE, calls |-> calls, rots |-> res.rots]

\* VertreapMap::append_with_priority(priority, key, val) on handle h.
MapAppendWithPriority(h, p, k, v) ==
  DoAppend("append_with_priority", 0, h, p, k, v)

\* Mutant of make_priority_calls: the generator is asked only for a key the
\* handle does not hold.
make_priority_calls_new_key(h, key) ==
  IF find(heap, h, key).tag = "Some" THEN 0 ELSE 1

\* The number of make_priority calls VertreapMap::append makes for one call.
make_priority_calls(h, key) == 1

\* VertreapMap::append(key, val) on handle h: the generator answers some
\* priority, which is handed on to append_with_priority.
MapAppend(h, k, v) ==
  \E priority \in Priorities :
    DoAppend("append", make_priority_calls(h, k), h, priority, k, v)

\* Vertreap::append_with_priority(priority, item) on handle h of a raw
\* Vertreap whose items are only partially ordered.
EngineAppend(h, p, k, v) ==
  DoAppend("engine_append", 0, h, p, k, v)

\* Clone of handle h: the same version, count, lineage and root. Handles
\* are values here, so the clone is the handle cloned.
clone(h) == [version |-> h.version, count |-> h.count, root |-> h.root]

Clone(h) ==
  /\ handles' = handles \cup {clone(h)}
  /\ ref' = (clone(h) :> ref[h]) @@ ref
  /\ op' = [NoOp EXCEPT !.kind = "clone"]
  /\ UNCHANGED <<state_version, heap>>

\* The payloads a call can be made with. No code reads a payload (KV is
\* compared by its key alone), so what the calls do is the same for any
\* payloads; each call is given one no earlier call had, which tells every
\* two items apart.
Payloads == {state_version + 1}

\* Once the counter is at its maximum every append panics before it reads
\* its handle and arguments, and all of them end in the same state: there
\* one call stands for all.
Exhausted == state_version = MaxVersion
AnyHandle == CHOOSE h \in handles : TRUE
AnyOf(S) == CHOOSE x \in S : TRUE

Next ==
  \/ /\ ~Exhausted
     /\ \E h \in handles, p \in Priorities, k \in Keys, v \in Payloads :
          MapAppendWithPriority(h, p, k, v)
  \/ /\ Exhausted
     /\ MapAppendWithPriority(AnyHandle, AnyOf(Priorities), AnyOf(Keys),
                              AnyOf(Payloads))
  \/ \E h \in handles : Clone(h)

Spec == Init /\ [][Next]_vars

\* Appends through the priority generator.
GenNext ==
  \/ /\ ~Exhausted
     /\ \E h \in handles, k \in Keys, v \in Payloads : MapAppend(h, k, v)
  \/ /\ Exhausted
     /\ MapAppend(AnyHandle, AnyOf(Keys), AnyOf(Payloads))
  \/ \E h \in handles : Clone(h)

GenSpec == Init /\ [][GenNext]_vars

\* The raw engine over items that need not be comparable.
EngineNext ==
  \/ /\ ~Exhausted
     /\ \E h \in handles, p \in Priorities, k \in Keys \cup {Incomparable},
            v \in Payloads : EngineAppend(h, p, k, v)
  \/ /\ Exhausted
     /\ EngineAppend(AnyHandle, AnyOf(Priorities), AnyOf(Keys), AnyOf(Payloads))
  \/ \E h \in handles : Clone(h)

EngineSpec == Init /\ [][EngineNext]_vars

\* ------------------------------------------------- what the claims speak of
\* The nodes reachable from a root.
RECURSIVE Reach(_, _)
Reach(m, id) ==
  IF id = None THEN {}
  ELSE {id} \cup Reach(m, m[id].left) \cup Reach(m, m[id].right)

SubtreeKeys(m, id) == {m[n].item.k : n \in Reach(m, id)}

\* The keys and priorities of a tree, position by position.
RECURSIVE Shape(_, _)
Shape(m, id) ==
  IF id = None THEN << >>
  ELSE <<Shape(m, m[id].left), m[id].item.k, m[id].priority,
         Shape(m, m[id].right)>>

\* The keys of the nodes a search for key visits from a root.
RECURSIVE SearchPathKeys(_, _, _)
SearchPathKeys(m, id, key) ==
  IF id = None THEN {}
  ELSE IF key = m[id].item.k THEN {key}
  ELSE IF key < m[id].item.k
    THEN {m[id].item.k} \cup SearchPathKeys(m, m[id].left, key)
    ELSE {m[id].item.k} \cup SearchPathKeys(m, m[id].right, key)

RECURSIVE SortedSeq(_)
SortedSeq(S) ==
  IF S = {} THEN << >>
  ELSE LET lo == CHOOSE x \in S : \A y \in S : x <= y
       IN  <<lo>> \o SortedSeq(S \ {lo})

StrictlyIncreasing(q) == \A i \in 1..(Len(q) - 1) : q[i] < q[i + 1]

\* The last call was an append that returned a handle.
Appended == op.kind \in {"append_with_priority", "append", "engine_append"}
            /\ ~op.trap

\* The last call appended a key its handle already held.
Updated == Appended /\ find(heap, op.src, op.k).tag = "Some"

\* Everything a caller can read from handle h in arena m.
Observed(m, h) ==
  [find |-> [k \in Keys |-> find(m, h, k)],
   len |-> len(h),
   iter |-> iter(m, h),
   items |-> IterItems(m, h)]

\* ----------------------------------------------------------------- claims
\* C1. Persistence: no call changes what find (for every key), len and iter
\* answer on a handle that existed before the call, whichever handle of the
\* lineage the call was made on.
C1_Persistence ==
  [][\A h \in handles :
       h \in handles' /\ Observed(heap', h) = Observed(heap, h)]_vars

\* An older, non-empty handle has had one of its keys appended again with
\* another payload after a newer handle was made, and still holds the old.
C1_Witness ==
  /\ Updated
  /\ op.new.version > op.src.version + 1
  /\ find(heap, op.src, op.k).item.v # op.v
  /\ find(heap, op.new, op.k).item.v = op.v

\* C2. BST order: on every handle iter yields strictly increasing keys, and
\* at every reachable node the keys on the left are smaller and the keys on
\* the right larger than the node's own.
C2_BstOrder ==
  \A h \in handles :
    /\ StrictlyIncreasing(IterKeys(heap, h))
    /\ \A id \in Reach(heap, h.root) :
         /\ \A k \in SubtreeKeys(heap, heap[id].left) : k < heap[id].item.k
         /\ \A k \in SubtreeKeys(heap, heap[id].right) : k > heap[id].item.k

\* An append that rotated at two levels and returned a tree of three keys.
C2_Witness ==
  /\ Appended
  /\ op.rots = 2
  /\ Len(IterKeys(heap, op.new)) = 3

\* C3. Lookup agrees with a reference map: find answers the payload last
\* appended under the key along the handle's own chain of appends, absent
\* exactly for the keys never appended along it, and iter yields the
\* appended keys in sorted order.
C3_FindAgrees ==
  \A h \in handles :
    /\ \A k \in Keys :
         find(heap, h, k) = IF k \in DOMAIN ref[h]
                            THEN Some(KV(k, ref[h][k])) ELSE NoItem
    /\ IterKeys(heap, h) = SortedSeq(DOMAIN ref[h])

\* A handle of two keys, one of them appended twice with different
\* payloads, and a key it does not hold.
C3_Witness ==
  /\ Updated
  /\ op.new.count = 2
  /\ find(heap, op.src, op.k).item.v # op.v
  /\ \E k \in Keys : find(heap, op.new, k) = NoItem

\* C4. Count: len(h) is the number of items iter(h) yields; an append of a
\* key the handle does not hold returns a handle one longer, an append of a
\* key it holds a handle of the same length.
C4_Count ==
  /\ \A h \in handles : len(h) = Len(iter(heap, h))
  /\ Appended =>
       len(op.new) = len(op.src) + (IF Updated THEN 0 ELSE 1)

\* A key below the root is appended again.
C4_Witness ==
  /\ Updated
  /\ len(op.src) = 2
  /\ heap[op.src.root].item.k # op.k

\* C5 as stated: make_priority is called once for an append of a new key
\* and not at all for an append of a key the handle already holds.
C5_Original ==
  (op.kind = "append" /\ ~op.trap) =>
    op.calls = (IF Updated THEN 0 ELSE 1)

\* C5 amended: VertreapMap::append calls make_priority exactly once per
\* call, for a key the handle holds as for a new one; on an update the
\* priority drawn is not used, the key keeps the priority it had.
C5_OncePerAppend ==
  op.kind = "append" =>
    /\ op.calls = 1
    /\ Updated =>
         \E a \in Reach(heap, op.src.root), b \in Reach(heap, op.new.root) :
           /\ heap[a].item.k = op.k
           /\ heap[b].item.k = op.k
           /\ heap[b].priority = heap[a].priority

\* An update through the generator, which answered another priority than
\* the one the key has.
C5_Witness ==
  /\ op.kind = "append"
  /\ Updated
  /\ op.calls = 1
  /\ \E a \in Reach(heap, op.src.root) :
       heap[a].item.k = op.k /\ heap[a].priority # op.p

\* C6 as stated: a call that panics leaves the lineage counter, the handles
\* and the nodes as they were.
C6_Original ==
  [][op'.trap =>
       /\ state_version' = state_version
       /\ handles' = handles
       /\ heap' = heap]_vars

\* C6 amended: a call that panics returns no handle and leaves every handle
\* and node as it was. When it panics on the overflow of the counter, the
\* counter too is as it was; when it panics on an incomparable item, the
\* counter has already been incremented.
C6_NoPartialTree ==
  [][op'.trap =>
       /\ handles' = handles
       /\ heap' = heap
       /\ state_version = MaxVersion => state_version' = state_version
       /\ state_version < MaxVersion => state_version' = state_version + 1]_vars

\* A call panicked on an incomparable item after one append had returned:
\* two version numbers are used, and the arena holds one node.
C6_Witness ==
  /\ op.trap
  /\ state_version = 2
  /\ Cardinality(DOMAIN heap) = 1

\* A call panicked on the overflow of the counter.
C6_OverflowWitness ==
  /\ op.trap
  /\ state_version = MaxVersion
  /\ Cardinality(DOMAIN heap) >= MaxVersion

\* C7. Heap order: at every reachable node the priority is at least the
\* priority of each child.
C7_HeapOrder ==
  \A h \in handles : \A id \in Reach(heap, h.root) :
    /\ heap[id].left # None =>
         heap[heap[id].left].priority <= heap[id].priority
    /\ heap[id].right # None =>
         heap[heap[id].right].priority <= heap[id].priority

\* An append that rotated at two levels, into a tree whose root has a child
\* of its own priority.
C7_Witness ==
  /\ Appended
  /\ op.rots = 2
  /\ \E id \in Reach(heap, op.new.root) :
       /\ heap[id].left # None
       /\ heap[heap[id].left].priority = heap[id].priority

\* C8. Priority stability: an append of a key the handle holds returns a
\* tree of the same keys and priorities at the same positions, whatever
\* priority was supplied, makes no rotation, and replaces that key's payload
\* and no other.
C8_UpdateKeepsShape ==
  Updated =>
    /\ Shape(heap, op.new.root) = Shape(heap, op.src.root)
    /\ op.rots = 0
    /\ find(heap, op.new, op.k) = Some(KV(op.k, op.v))
    /\ \A k \in Keys \ {op.k} : find(heap, op.new, k) = find(heap, op.src, k)

\* A key below the root is appended again with a priority above the root's
\* and another payload.
C8_Witness ==
  /\ Updated
  /\ heap[op.src.root].item.k # op.k
  /\ op.p > heap[op.src.root].priority
  /\ find(heap, op.src, op.k).item.v # op.v

\* C9. Lineage version order: an append that returns has incremented the
\* shared counter by one, and its handle carries the new value, which is
\* greater than the version of every handle and node there was; handles of
\* one version are the same handle.
C9_VersionOrder ==
  [][(op'.kind \in {"append_with_priority", "append", "engine_append"}
      /\ ~op'.trap) =>
       /\ state_version' = state_version + 1
       /\ op'.new.version = state_version'
       /\ op'.new \in handles'
       /\ \A h \in handles : h.version < op'.new.version
       /\ \A id \in DOMAIN heap : heap[id].version < op'.new.version
       /\ \A g, h \in handles' : g.version = h.version => g = h]_vars

\* An append made on a handle that is not the newest of its lineage.
C9_Witness ==
  /\ Appended
  /\ op.src.root # None
  /\ op.new.version > op.src.version + 1

\* C10. Structural sharing: after an append, the nodes of the new handle
\* that do not carry its version are nodes of the handle appended to, and
\* the nodes that carry it hold the keys on the search path of the key in
\* the handle appended to, and the key.
C10_Sharing ==
  Appended =>
    LET fresh == {id \in Reach(heap, op.new.root) :
                    heap[id].version = op.new.version}
    IN  /\ Reach(heap, op.new.root) \ fresh \subseteq Reach(heap, op.src.root)
        /\ {heap[id].item.k : id \in fresh}
             = SearchPathKeys(heap, op.src.root, op.k) \cup {op.k}

\* An append that rotated and left a subtree off its path shared.
C10_Witness ==
  /\ Appended
  /\ op.rots >= 1
  /\ len(op.new) = 3
  /\ \E id \in Reach(heap, op.new.root) :
       heap[id].version < op.new.version /\ id \in Reach(heap, op.src.root)

====
